---------------------------- MODULE Spec2Model ----------------------------
(***************************************************************************)
(* The bounded server-instance cache of the 3D Abstract Moodboard MCP      *)
(* server: class LRUCache (a JavaScript Map from key to                    *)
(* {value, lastAccessed}, scanned for the smallest lastAccessed on         *)
(* overflow) and getOrCreateServer, which resolves a user id to its        *)
(* McpServer instance through the process-wide serverCache.                *)
(*                                                                         *)
(* Keys are user ids (strings in the source, numbered 1..NumKeys here).    *)
(* Instances are object references: 1..NumInstances are the objects a      *)
(* caller of LRUCache.set passes in, NumInstances + n is the n-th          *)
(* McpServer constructed by getOrCreateServer.                             *)
(*                                                                         *)
(* On top of the cache: handleApiKeyRequest, the per-request pipeline of   *)
(* credential check, server lookup, JSON-RPC parsing and dispatch, with    *)
(* several requests in flight, each suspended at one of its awaits.        *)
(***************************************************************************)
EXTENDS Integers, Sequences, FiniteSets

VARIABLES
    cache,      \* LRUCache.cache: the Map's entries, in Map iteration order
    maxSize,    \* LRUCache.maxSize
    now,        \* the latest reading of Date.now()
    created,    \* how many McpServer objects getOrCreateServer has constructed
    called,     \* the operation that completed last: [op, key, value]
    ret,        \* what it returned
    logged,     \* the logger events it emitted
    pc,         \* per request in flight: the await its handler is suspended at
    user,       \* per request: the userId its credential resolved to (0: none)
    server,     \* per request: the McpServer getOrCreateServer gave it (0: none)
    msg,        \* per request: the id of its parsed JSON-RPC message
    locals,     \* per request: emotion, complexity, height of its tool call
    calls,      \* per request: how often each collaborator was invoked for it
    responded,  \* the Response that was returned last, and for which request
    widget      \* the moodboard widget: its connection, its React state, and
                \* what its effect last ran with and executed

cacheVars == <<cache, maxSize, now, created, called, ret, logged>>
reqVars == <<pc, user, server, msg, locals, calls, responded, widget>>
vars == <<cache, maxSize, now, created, called, ret, logged,
          pc, user, server, msg, locals, calls, responded, widget>>

---------------------------------------------------------------------------
(* Bounds of the model *)

NumKeys == 3
NumInstances == 2
MaxCapacity == 2
MaxTime == 1
MaxCreated == 3
MaxInFlight == 2

\* const MAX_CACHED_SERVERS = 100: the capacity serverCache is built with.
\* The model ranges over its capacities up to MaxCapacity.
MAX_CACHED_SERVERS == 100

Keys == 1..NumKeys
\* the requests that can be in flight at once; a request that was answered
\* leaves its place to the next one
Requests == 1..MaxInFlight
Instances == 1..NumInstances
Capacities == {cap \in 1..MAX_CACHED_SERVERS : cap <= MaxCapacity}
\* the arguments a caller can hand to the constructor, valid or not
AnyCapacities == (-1)..MaxCapacity

\* Date.now() never runs backwards: a reading repeats the latest one or is
\* later (only the order of the readings matters to the cache)
ClockReadings(latest) == {t \in {latest, latest + 1} : t <= MaxTime}

---------------------------------------------------------------------------
(* undefined, and a defined value *)

None == <<>>
Some(v) == <<v>>

---------------------------------------------------------------------------
(* The JavaScript Map behind the cache: a sequence of entries             *)
(* [key, value, lastAccessed] in insertion order.                         *)

MapHas(c, k) == \E i \in 1..Len(c) : c[i].key = k

MapIndex(c, k) == CHOOSE i \in 1..Len(c) : c[i].key = k

MapGet(c, k) == IF MapHas(c, k) THEN Some(c[MapIndex(c, k)]) ELSE None

\* Map.set keeps the position of a key that is present, appends a new one
MapSet(c, k, v, t) ==
    LET e == [key |-> k, value |-> v, lastAccessed |-> t]
    IN  IF MapHas(c, k) THEN [c EXCEPT ![MapIndex(c, k)] = e] ELSE Append(c, e)

MapDelete(c, k) == SelectSeq(c, LAMBDA e : e.key # k)

MapKeys(c) == {c[i].key : i \in 1..Len(c)}

---------------------------------------------------------------------------
(* LRUCache.evictLRU *)

\* entry.lastAccessed < oldestTime; oldestTime starts at Infinity, which
\* the scan state renders as oldestIdx = 0
IsOlderFlipped(t, oldestIdx, oldestTime) == oldestIdx = 0 \/ t > oldestTime
IsOlderOrEqual(t, oldestIdx, oldestTime) == oldestIdx = 0 \/ t <= oldestTime
IsOlder(t, oldestIdx, oldestTime) == oldestIdx = 0 \/ t < oldestTime

\* the for-loop over this.cache.entries(): the index of oldestKey, 0 when
\* it is still undefined
RECURSIVE ScanOldest(_, _, _, _)
ScanOldest(c, i, oldestIdx, oldestTime) ==
    IF i > Len(c) THEN oldestIdx
    ELSE IF IsOlder(c[i].lastAccessed, oldestIdx, oldestTime)
         THEN ScanOldest(c, i + 1, i, c[i].lastAccessed)
         ELSE ScanOldest(c, i + 1, oldestIdx, oldestTime)

EvictAllOldest(c) ==
    LET oldest == ScanOldest(c, 1, 0, 0)
    IN  IF oldest # 0
        THEN [cache  |-> SelectSeq(c, LAMBDA e :
                             e.lastAccessed # c[oldest].lastAccessed),
              logged |-> <<[event |-> "lru_cache_eviction",
                            evicted_user_id |-> c[oldest].key,
                            cache_size |-> Len(c)]>>]
        ELSE [cache |-> c, logged |-> <<>>]
EvictLRU(c) ==
    LET oldest == ScanOldest(c, 1, 0, 0)
    IN  IF oldest # 0
        THEN [cache  |-> MapDelete(c, c[oldest].key),
              logged |-> <<[event |-> "lru_cache_eviction",
                            evicted_user_id |-> c[oldest].key,
                            cache_size |-> Len(c)]>>]
        ELSE [cache |-> c, logged |-> <<>>]

---------------------------------------------------------------------------
(* LRUCache.get, set, has, size as functions of the cache and the clock   *)
(* reading t an operation takes when it calls Date.now()                  *)

\* get: touches the entry and returns its value, or returns undefined
LRUGetNoTouch(c, k, t) ==
    LET entry == MapGet(c, k)
    IN  IF entry # None
        THEN [cache |-> c, ret |-> Some(entry[1].value)]
        ELSE [cache |-> c, ret |-> None]
LRUGet(c, k, t) ==
    LET entry == MapGet(c, k)
    IN  IF entry # None
        THEN [cache |-> MapSet(c, k, entry[1].value, t),
              ret   |-> Some(entry[1].value)]
        ELSE [cache |-> c, ret |-> None]

\* this.cache.size >= this.maxSize && !this.cache.has(key)
MustEvictOffByOne(c, cap, k) == Len(c) > cap /\ ~MapHas(c, k)
MustEvictAtCapacity(c, cap, k) == Len(c) >= cap
MustEvict(c, cap, k) == Len(c) >= cap /\ ~MapHas(c, k)

LRUSet(c, cap, k, v, t) ==
    LET e == IF MustEvict(c, cap, k) THEN EvictLRU(c)
                                     ELSE [cache |-> c, logged |-> <<>>]
    IN  [cache |-> MapSet(e.cache, k, v, t), logged |-> e.logged]

LRUHasTouching(c, k) == [cache |-> LRUGet(c, k, now).cache, ret |-> MapHas(c, k)]
LRUHas(c, k) == [cache |-> c, ret |-> MapHas(c, k)]

LRUSize(c) == Len(c)

---------------------------------------------------------------------------
(* getOrCreateServer: serverCache.get(userId); on a miss a new McpServer,  *)
(* its registrations, and serverCache.set(userId, server).  n is the       *)
(* number of servers constructed so far.                                   *)

\* if (cached) return cached;
IsCachedNever(cached) == FALSE
IsCached(cached) == cached # None

GetOrCreate(c, cap, n, userId, t) ==
    LET cached == LRUGet(c, userId, t)
        built == NumInstances + n + 1
        stored == LRUSet(cached.cache, cap, userId, built, t)
    IN  IF IsCached(cached.ret)
        THEN [cache |-> cached.cache, ret |-> cached.ret, logged |-> <<>>,
              created |-> n]
        ELSE [cache |-> stored.cache, ret |-> Some(built),
              logged |-> stored.logged, created |-> n + 1]

---------------------------------------------------------------------------
(* Construction *)

NoCalls == [validateApiKey |-> 0, getOrCreateServer |-> 0,
            enhanceEmotionToThreeJS |-> 0, loadHtml |-> 0]
NoResponse == [req |-> 0, status |-> 0, jsonrpc |-> FALSE, id |-> None,
               error |-> None, message |-> "", result |-> None]
NoLocals == [emotion |-> "", complexity |-> 0, height |-> 0]

\* the widget before useApp has connected: every useState(null) of
\* McpAppWrapper, no run of MoodboardApp's effect yet, nothing executed
NoWidget ==
    [app |-> "connecting", toolInputs |-> None, toolInputsPartial |-> None,
     toolResult |-> None, hostContext |-> None, deps |-> None,
     executed |-> None]

\* constructor(maxSize): an empty Map and the capacity as given
Construct(cap) ==
    /\ cache = <<>>
    /\ maxSize = cap
    /\ now = 0
    /\ created = 0
    /\ called = [op |-> "new", key |-> 0, value |-> None]
    /\ ret = None
    /\ logged = <<>>
    /\ pc = [r \in Requests |-> "idle"]
    /\ user = [r \in Requests |-> 0]
    /\ server = [r \in Requests |-> 0]
    /\ msg = [r \in Requests |-> None]
    /\ locals = [r \in Requests |-> NoLocals]
    /\ calls = [r \in Requests |-> NoCalls]
    /\ responded = NoResponse
    /\ widget = NoWidget

\* const serverCache = new LRUCache<string, McpServer>(MAX_CACHED_SERVERS)
Init == \E cap \in Capacities : Construct(cap)

\* the constructor handed any integer
InitAnyCapacity == \E cap \in AnyCapacities : Construct(cap)

---------------------------------------------------------------------------
(* Operations *)

Get(k) ==
    \E t \in ClockReadings(now) :
        LET r == LRUGet(cache, k, t)
        IN  /\ cache' = r.cache
            /\ ret' = r.ret
            /\ now' = IF MapHas(cache, k) THEN t ELSE now
            /\ logged' = <<>>
            /\ called' = [op |-> "get", key |-> k, value |-> None]
            /\ UNCHANGED <<maxSize, created>>
            /\ UNCHANGED reqVars

Set(k, v) ==
    \E t \in ClockReadings(now) :
        LET r == LRUSet(cache, maxSize, k, v, t)
        IN  /\ cache' = r.cache
            /\ ret' = None
            /\ now' = t
            /\ logged' = r.logged
            /\ called' = [op |-> "set", key |-> k, value |-> Some(v)]
            /\ UNCHANGED <<maxSize, created>>
            /\ UNCHANGED reqVars

Has(k) ==
    LET r == LRUHas(cache, k)
    IN  /\ cache' = r.cache
        /\ ret' = Some(r.ret)
        /\ logged' = <<>>
        /\ called' = [op |-> "has", key |-> k, value |-> None]
        /\ UNCHANGED <<maxSize, now, created>>
        /\ UNCHANGED reqVars

Size ==
    /\ ret' = Some(LRUSize(cache))
    /\ logged' = <<>>
    /\ called' = [op |-> "size", key |-> 0, value |-> None]
    /\ UNCHANGED <<cache, maxSize, now, created>>
    /\ UNCHANGED reqVars

\* getOrCreateServer has no await between serverCache.get and
\* serverCache.set: it runs to completion as one step
GetOrCreateServer(userId) ==
    \E t \in ClockReadings(now) :
        LET r == GetOrCreate(cache, maxSize, created, userId, t)
        IN  /\ r.created <= MaxCreated
            /\ cache' = r.cache
            /\ ret' = r.ret
            /\ now' = t
            /\ logged' = r.logged
            /\ created' = r.created
            /\ called' = [op |-> "getOrCreateServer", key |-> userId,
                           value |-> None]
            /\ UNCHANGED maxSize
            /\ UNCHANGED reqVars

\* a set of a key that is not in the cache
InsertNew(k, v) == ~MapHas(cache, k) /\ Set(k, v)

\* a get of the key that was inserted first among those in the cache
GetFirst == cache # <<>> /\ Get(cache[1].key)

---------------------------------------------------------------------------
(* Specifications *)

\* the cache under any caller of its public operations
Next ==
    \/ \E k \in Keys : Get(k)
    \/ \E k \in Keys, v \in Instances : Set(k, v)
    \/ \E k \in Keys : Has(k)
    \/ Size

Spec == Init /\ [][Next]_vars

\* the same, whatever capacity the constructor was given
SpecAnyCapacity == InitAnyCapacity /\ [][Next]_vars

\* serverCache as the program uses it: through getOrCreateServer (and a
\* caller's get)
NextServer ==
    \/ \E k \in Keys : GetOrCreateServer(k)
    \/ \E k \in Keys : Get(k)

SpecServer == Init /\ [][NextServer]_vars

\* A request of userId over the OAuth path: it is served by the McpServer
\* that the identity's Moodboard3DMCP holds in its field `server`.  The
\* class never refers to serverCache, a constant private to the API-key
\* handler's module.
AgentServes(userId) ==
    /\ called' = [op |-> "Moodboard3DMCP", key |-> userId, value |-> None]
    /\ ret' = None
    /\ logged' = <<>>
    /\ UNCHANGED <<cache, maxSize, now, created>>
    /\ UNCHANGED reqVars

\* serverCache while requests arrive over both paths
NextPool ==
    \/ \E k \in Keys : GetOrCreateServer(k)
    \/ \E k \in Keys : AgentServes(k)

SpecPool == Init /\ [][NextPool]_vars

\* runs in which keys are only inserted and looked at, never re-accessed
NextInserts ==
    \/ \E k \in Keys, v \in Instances : InsertNew(k, v)
    \/ \E k \in Keys : Has(k)
    \/ Size

SpecInserts == Init /\ [][NextInserts]_vars

\* runs in which keys are inserted and only the first key is re-accessed
NextTouchFirst ==
    \/ \E k \in Keys, v \in Instances : InsertNew(k, v)
    \/ GetFirst

SpecTouchFirst == Init /\ [][NextTouchFirst]_vars

---------------------------------------------------------------------------
(* Responses.  A Response is its HTTP status and the members of its JSON   *)
(* body: jsonrpc (whether the body is a JSON-RPC envelope), id, error (the *)
(* code of the error member of an envelope), message (of the error member, *)
(* or of the body {error: message} of jsonError) and result.               *)

OK == 200
Unauthorized == 401
BadRequest == 400
InternalServerError == 500

InvalidRequest == -32600
MethodNotFound == -32601
InvalidParams == -32602
ParseError == -32700

\* the string "error" that handleHTTPTransport's catch passes as the id;
\* the ids requests carry are numbered from 1
PlaceholderId == Some(0)

\* function jsonError(message, status)
JsonError(message, status) ==
    [status |-> status, jsonrpc |-> FALSE, id |-> None, error |-> None,
     message |-> message, result |-> None]

\* function jsonRpcResponse(id, result, error?): JSON.stringify leaves out an
\* id that is undefined; the body has the error member or the result member
JsonRpcError(id, code, message) ==
    [status |-> OK, jsonrpc |-> TRUE, id |-> id, error |-> Some(code),
     message |-> message, result |-> None]

\* what a result carries besides its kind: the scene {code, emotion, height}
\* of structuredContent, the text of a documentation result (none when
\* JSON.stringify drops an undefined text), the names of tools/list in order
NoContent ==
    [code |-> <<>>, emotion |-> "", height |-> 0, text |-> None,
     tools |-> <<>>]
Scene(code, emotion, height) ==
    [NoContent EXCEPT !.code = code, !.emotion = emotion, !.height = height]

JsonRpcResultWith(id, payload, isError, content) ==
    [status |-> OK, jsonrpc |-> TRUE, id |-> id, error |-> None,
     message |-> "",
     result |-> Some([payload |-> payload, isError |-> isError,
                      content |-> content])]

JsonRpcResult(id, payload, isError) ==
    JsonRpcResultWith(id, payload, isError, NoContent)

\* an exception that leaves the fetch handler: no Response is returned
Unhandled ==
    [status |-> 0, jsonrpc |-> FALSE, id |-> None, error |-> None,
     message |-> "unhandled", result |-> None]

---------------------------------------------------------------------------
(* The JSON-RPC message of a request, as request.json() delivers it:       *)
(* kind "unparseable" makes request.json() throw, kind "null" is the JSON  *)
(* text null, kind "object" is a value with the members below ("absent"    *)
(* for a member that is undefined, "other" for a value the code does not   *)
(* name).                                                                  *)

Methods ==
    {"initialize", "ping", "tools/list", "tools/call", "resources/list",
     "resources/read", "prompts/list"}
Tools == {"generate_mood_scene", "learn_mood_primitives"}

\* params.arguments of a tools/call: each member undefined or a value
Arguments(emotion, complexity, height, category) ==
    [emotion |-> emotion, complexity |-> complexity, height |-> height,
     category |-> category]
NoArguments == Arguments(None, None, None, None)

Body(kind, jsonrpc, id, method, name, uri) ==
    [kind |-> kind, jsonrpc |-> jsonrpc, id |-> id, method |-> method,
     name |-> name, uri |-> uri, arguments |-> NoArguments]

\* a well-formed tools/call of tool name with arguments args
Call(id, name, args) ==
    [Body("object", "2.0", id, "tools/call", name, "absent")
        EXCEPT !.arguments = args]

\* the ids a message of request r can carry: none, or its own
IdsOf(r) == {None, Some(r)}

\* messages that reach a method of the switch, one per way through it
MethodBodies(r) ==
    {Body("object", "2.0", id, method, "absent", "absent") :
        id \in IdsOf(r),
        method \in (Methods \ {"tools/call", "resources/read"})
                   \cup {"other", "absent"}}
    \cup {Body("object", "2.0", id, "tools/call", name, "absent") :
            id \in IdsOf(r), name \in Tools \cup {"other", "absent"}}
    \cup {Body("object", "2.0", id, "resources/read", "absent", uri) :
            id \in IdsOf(r), uri \in {"ui://moodboard", "other", "absent"}}

\* messages the envelope check or the parser stops
BrokenBodies(r) ==
    {Body("unparseable", "absent", None, "absent", "absent", "absent"),
     Body("null", "absent", None, "absent", "absent", "absent")}
    \cup {Body("object", jsonrpc, id, method, "absent", "absent") :
            jsonrpc \in {"1.0", "absent"}, id \in IdsOf(r),
            method \in {"ping", "absent"}}

Bodies(r) == MethodBodies(r) \cup BrokenBodies(r)

\* the collaborator a message makes its handler await, "" if none
Awaited(body) ==
    IF body.kind # "object" \/ body.jsonrpc # "2.0" THEN ""
    ELSE IF body.method = "tools/call" /\ body.name = "generate_mood_scene"
    THEN "enhanceEmotionToThreeJS"
    ELSE IF body.method = "resources/read" /\ body.uri = "ui://moodboard"
    THEN "loadHtml"
    ELSE ""

---------------------------------------------------------------------------
(* Text: what the model returns and what cleanupCode makes of it.  A text  *)
(* is a sequence of tokens: whitespace, "fence" (the three backquotes of   *)
(* a markdown code block), the language tags a fence can carry, and code.  *)

MaxTextLen == 2
Alphabet == {" ", "fence", "javascript", "js", "X"}
Texts == UNION {[1..n -> Alphabet] : n \in 0..MaxTextLen}

StartsWith(text, prefix) ==
    Len(text) >= Len(prefix) /\ SubSeq(text, 1, Len(prefix)) = prefix
EndsWith(text, suffix) ==
    /\ Len(text) >= Len(suffix)
    /\ SubSeq(text, Len(text) - Len(suffix) + 1, Len(text)) = suffix
Slice(text, from) == SubSeq(text, from + 1, Len(text))

\* String.prototype.trim
RECURSIVE TrimStart(_)
TrimStart(text) ==
    IF text # <<>> /\ Head(text) = " " THEN TrimStart(Tail(text)) ELSE text
RECURSIVE TrimEnd(_)
TrimEnd(text) ==
    IF text # <<>> /\ text[Len(text)] = " "
    THEN TrimEnd(SubSeq(text, 1, Len(text) - 1))
    ELSE text
Trim(text) == TrimEnd(TrimStart(text))

\* function cleanupCode(code)
CleanupCodeKeepsFence(code) == Trim(code)
CleanupCode(code) ==
    LET cleaned == Trim(code)
        opened ==
            IF StartsWith(cleaned, <<"fence", "javascript">>)
            THEN Slice(cleaned, 2)
            ELSE IF StartsWith(cleaned, <<"fence", "js">>)
            THEN Slice(cleaned, 2)
            ELSE IF StartsWith(cleaned, <<"fence">>)
            THEN Slice(cleaned, 1)
            ELSE cleaned
        closed ==
            IF EndsWith(opened, <<"fence">>)
            THEN SubSeq(opened, 1, Len(opened) - 1)
            ELSE opened
    IN  Trim(closed)

---------------------------------------------------------------------------
(* The arguments of a tool call as the handlers of the API-key path read   *)
(* them.                                                                   *)

\* (x as string) || d and (x as number) || d: d for undefined and for the
\* falsy values "" and 0
OrStringKeepsEmpty(x, d) == IF x = None THEN d ELSE x[1]
OrString(x, d) == IF x = None \/ x[1] = "" THEN d ELSE x[1]
OrNumberKeepsDefaultOut(x, d) == IF x = None THEN 0 ELSE x[1]
OrNumber(x, d) == IF x = None \/ x[1] = 0 THEN d ELSE x[1]

\* const emotion = args?.emotion || ""; complexity = ... || 5; height = ...
\* || 600: the locals of the generate_mood_scene case.  emotion and
\* complexity are what enhanceEmotionToThreeJS puts into the prompt of
\* ai.run.
GenerateLocals(args) ==
    [emotion |-> OrString(args.emotion, ""),
     complexity |-> OrNumber(args.complexity, 5),
     height |-> OrNumber(args.height, 600)]

\* MOOD_PRIMITIVES_DOCUMENTATION[category]: the text of a category (named
\* here by its category), undefined for any other key
Categories == {"geometries", "materials", "lighting", "animation", "all"}
Documentation(category) ==
    IF category \in Categories THEN Some(category) ELSE None

\* const category = args?.category || "all"
DocumentationContent(args) ==
    [NoContent EXCEPT !.text = Documentation(OrString(args.category, "all"))]

\* handleToolsList: tools: [{name: "generate_mood_scene", ...}, {name:
\* "learn_mood_primitives", ...}]
ToolsListReversed == <<"learn_mood_primitives", "generate_mood_scene">>
ToolsList == <<"generate_mood_scene", "learn_mood_primitives">>

---------------------------------------------------------------------------
(* The catch clauses *)

\* handleHTTPTransport: catch (error) { return jsonRpcResponse("error", ...) }
TransportCatch == JsonRpcError(PlaceholderId, ParseError, "Parse error")

\* handleApiKeyRequest: catch (error) { return jsonError(..., 500) }
ApiKeyHandlerRethrows == Unhandled
ApiKeyHandlerCatch == JsonError("Internal server error", InternalServerError)

\* handleToolsCall, generate_mood_scene: catch (error) { ... isError: true }
ToolFailureAsProtocolError(id) ==
    JsonRpcError(id, InternalServerError, "Error")
ToolCatch(id) == JsonRpcResult(id, "Error", TRUE)

---------------------------------------------------------------------------
(* handleHTTPTransport after request.json() and the handlers it            *)
(* dispatches to, up to their first await: the Response of a message whose *)
(* handling awaits no collaborator.                                        *)

\* handleToolsCall: switch (name), without the case that awaits
ToolsCallWithoutDefault(body) ==
    JsonRpcResultWith(body.id, "documentation", FALSE,
                      DocumentationContent(body.arguments))
ToolsCallResponse(body) ==
    IF body.name = "learn_mood_primitives"
    THEN JsonRpcResultWith(body.id, "documentation", FALSE,
                           DocumentationContent(body.arguments))
    ELSE JsonRpcError(body.id, InvalidParams, "Unknown tool")

\* switch (jsonRpcRequest.method)
\* default: return jsonRpcResponse(id, null, { code: -32601, ... })
UnknownMethodAsPing(body) == JsonRpcResult(body.id, "empty", FALSE)
UnknownMethodResponse(body) ==
    JsonRpcError(body.id, MethodNotFound, "Method not found")

MethodResponse(body) ==
    CASE body.method = "initialize" ->
            JsonRpcResult(body.id, "serverInfo", FALSE)
      [] body.method = "ping" -> JsonRpcResult(body.id, "empty", FALSE)
      [] body.method = "tools/list" ->
            JsonRpcResultWith(body.id, "tools", FALSE,
                              [NoContent EXCEPT !.tools = ToolsList])
      [] body.method = "tools/call" -> ToolsCallResponse(body)
      [] body.method = "resources/list" ->
            JsonRpcResult(body.id, "resources", FALSE)
      [] body.method = "resources/read" ->
            JsonRpcError(body.id, InvalidParams, "Unknown resource")
      [] body.method = "prompts/list" ->
            JsonRpcResult(body.id, "prompts", FALSE)
      [] OTHER -> UnknownMethodResponse(body)

\* try { await request.json(); if (jsonrpc !== "2.0") ...; switch ... }
\* request.json() throws on text that is no JSON; reading .jsonrpc of null
\* throws a TypeError; both land in the catch
TransportResponse(body) ==
    IF body.kind # "object" THEN TransportCatch
    ELSE IF body.jsonrpc # "2.0"
    THEN JsonRpcError(body.id, InvalidRequest, "Invalid Request")
    ELSE MethodResponse(body)

---------------------------------------------------------------------------
(* handleApiKeyRequest, one action per stretch of code between two awaits. *)
(* pc[r] names the collaborator request r is suspended at: "idle" (no      *)
(* request), "received" (the handler has not started), "validateApiKey",   *)
(* "request.json", "enhanceEmotionToThreeJS", "loadHtml".  What the        *)
(* environment decides (the header, the validator's answer, the path, the  *)
(* message, whether a collaborator fails) is the input of the action that  *)
(* first reads it.                                                         *)

\* the handler of request r returns resp, or lets an exception escape
Return(r, resp) ==
    /\ pc' = [pc EXCEPT ![r] = IF resp = Unhandled THEN "failed" ELSE "idle"]
    /\ responded' =
         IF resp = Unhandled THEN responded
         ELSE [req |-> r, status |-> resp.status, jsonrpc |-> resp.jsonrpc,
               id |-> resp.id, error |-> resp.error,
               message |-> resp.message, result |-> resp.result]
    /\ user' = [user EXCEPT ![r] = 0]
    /\ server' = [server EXCEPT ![r] = 0]
    /\ msg' = [msg EXCEPT ![r] = None]
    /\ locals' = [locals EXCEPT ![r] = NoLocals]
    /\ calls' = [calls EXCEPT ![r] = NoCalls]
    /\ UNCHANGED widget

\* the worker receives a request
Arrive(r) ==
    /\ pc[r] = "idle"
    /\ pc' = [pc EXCEPT ![r] = "received"]
    /\ UNCHANGED <<user, server, msg, locals, calls, responded, widget>>
    /\ UNCHANGED cacheVars

\* from the entry of handleApiKeyRequest to await validateApiKey(...)
Start(r, hasApiKey) ==
    /\ pc[r] = "received"
    /\ IF hasApiKey
       THEN /\ pc' = [pc EXCEPT ![r] = "validateApiKey"]
            /\ calls' = [calls EXCEPT ![r].validateApiKey = @ + 1]
            /\ UNCHANGED <<user, server, msg, locals, responded, widget>>
       ELSE Return(r, JsonError("Missing Authorization header", Unauthorized))
    /\ UNCHANGED cacheVars

\* what validateApiKey can answer: a user, null, or an exception
Valid(userId) == [kind |-> "valid", userId |-> userId]
Invalid == [kind |-> "invalid", userId |-> 0]
Throws == [kind |-> "throws", userId |-> 0]
ValidatorOutcomes(users) == {Valid(k) : k \in users} \cup {Invalid, Throws}

\* if (!validationResult) return jsonError("Invalid or expired API key", 401)
RejectsNobody(outcome) == FALSE
IsRejected(outcome) == outcome.kind = "invalid"

\* whether getOrCreateServer awaits anything between serverCache.get and
\* serverCache.set: its body has no await
YieldsAlways == TRUE
YieldsWhileConstructing == FALSE

\* if (pathname === "/mcp") return await handleHTTPTransport(...), which runs
\* to await request.json(); else 400.  The await on getOrCreateServer's
\* promise before it only postpones this code, which reads no shared state.
Route(r, userId, instance, pathname) ==
    IF pathname = "/mcp"
    THEN /\ pc' = [pc EXCEPT ![r] = "request.json"]
         /\ user' = [user EXCEPT ![r] = userId]
         /\ server' = [server EXCEPT ![r] = instance]
         /\ calls' = [calls EXCEPT ![r].getOrCreateServer = @ + 1]
         /\ UNCHANGED <<msg, locals, responded, widget>>
    ELSE Return(r, JsonError("Invalid endpoint. Use /mcp", BadRequest))

\* from the return of validateApiKey through getOrCreateServer to the next
\* await of the request
ValidateReturns(r, outcome, pathname) ==
    IF pc[r] = "constructing"
    THEN \E t \in ClockReadings(now) :
            LET stored == LRUSet(cache, maxSize, user[r], server[r], t)
            IN  /\ cache' = stored.cache
                /\ logged' = stored.logged
                /\ now' = t
                /\ called' = [op |-> "getOrCreateServer", key |-> user[r],
                              value |-> None]
                /\ ret' = Some(server[r])
                /\ UNCHANGED <<maxSize, created>>
                /\ Route(r, user[r], server[r], pathname)
    ELSE
    /\ pc[r] = "validateApiKey"
    /\ IF outcome.kind = "throws"
       THEN Return(r, ApiKeyHandlerCatch) /\ UNCHANGED cacheVars
       ELSE IF IsRejected(outcome)
       THEN /\ Return(r, JsonError("Invalid or expired API key", Unauthorized))
            /\ UNCHANGED cacheVars
       ELSE IF YieldsWhileConstructing /\ ~MapHas(cache, outcome.userId)
       THEN /\ created < MaxCreated
            /\ created' = created + 1
            /\ pc' = [pc EXCEPT ![r] = "constructing"]
            /\ user' = [user EXCEPT ![r] = outcome.userId]
            /\ server' = [server EXCEPT ![r] = NumInstances + created + 1]
            /\ UNCHANGED <<msg, locals, calls, responded, widget>>
            /\ UNCHANGED <<cache, maxSize, now, called, ret, logged>>
       ELSE \E t \in ClockReadings(now) :
            LET got == GetOrCreate(cache, maxSize, created, outcome.userId, t)
            IN  /\ got.created <= MaxCreated
                /\ cache' = got.cache
                /\ logged' = got.logged
                /\ created' = got.created
                /\ now' = t
                /\ called' = [op |-> "getOrCreateServer",
                              key |-> outcome.userId, value |-> None]
                /\ ret' = got.ret
                /\ UNCHANGED maxSize
                /\ Route(r, outcome.userId, got.ret[1], pathname)

\* an McpServer between new McpServer(...) and its last register call
HalfRegistered == 0

\* whether serverCache.set follows the register calls: it is the last
\* statement of getOrCreateServer before the return
SetsBeforeRegistering == FALSE
SetsAfterRegistering == TRUE

\* from the return of validateApiKey into getOrCreateServer for an identity
\* that is not cached, where new McpServer(...) or a register call throws:
\* the exception leaves getOrCreateServer and reaches handleApiKeyRequest's
\* catch
ConstructionFails(r, userId) ==
    /\ pc[r] = "validateApiKey"
    /\ ~MapHas(cache, userId)
    /\ \E t \in ClockReadings(now) :
          /\ cache' = IF SetsAfterRegistering THEN cache
                      ELSE LRUSet(cache, maxSize, userId, HalfRegistered,
                                  t).cache
          /\ now' = IF SetsAfterRegistering THEN now ELSE t
    /\ called' = [op |-> "getOrCreateServer", key |-> userId, value |-> None]
    /\ ret' = None
    /\ logged' = <<>>
    /\ UNCHANGED <<maxSize, created>>
    /\ Return(r, ApiKeyHandlerCatch)

\* the caller gives the request up while it is suspended at an await
\* before getOrCreateServer: its continuation never runs
Abandon(r) ==
    /\ pc[r] = "validateApiKey"
    /\ pc' = [pc EXCEPT ![r] = "abandoned"]
    /\ user' = [user EXCEPT ![r] = 0]
    /\ server' = [server EXCEPT ![r] = 0]
    /\ msg' = [msg EXCEPT ![r] = None]
    /\ locals' = [locals EXCEPT ![r] = NoLocals]
    /\ calls' = [calls EXCEPT ![r] = NoCalls]
    /\ UNCHANGED <<responded, widget>>
    /\ UNCHANGED cacheVars

\* handleHTTPTransport as it would be if it took the instance from
\* serverCache again after await request.json(): an identity evicted in the
\* meantime lands in the catch
BodyReadFromCache(r, body) ==
    /\ pc[r] = "request.json"
    /\ IF ~MapHas(cache, user[r])
       THEN Return(r, TransportCatch)
       ELSE IF Awaited(body) = ""
       THEN Return(r, TransportResponse(body))
       ELSE /\ pc' = [pc EXCEPT ![r] = Awaited(body)]
            /\ msg' = [msg EXCEPT ![r] = body.id]
            /\ locals' =
                 IF Awaited(body) = "enhanceEmotionToThreeJS"
                 THEN [locals EXCEPT ![r] = GenerateLocals(body.arguments)]
                 ELSE locals
            /\ calls' = [calls EXCEPT ![r][Awaited(body)] = @ + 1]
            /\ UNCHANGED <<user, server, responded, widget>>
    /\ UNCHANGED cacheVars

\* from the return of request.json() to the Response, or to the await of
\* the collaborator the message's handler calls
BodyRead(r, body) ==
    /\ pc[r] = "request.json"
    /\ IF Awaited(body) = ""
       THEN Return(r, TransportResponse(body))
       ELSE /\ pc' = [pc EXCEPT ![r] = Awaited(body)]
            /\ msg' = [msg EXCEPT ![r] = body.id]
            /\ locals' =
                 IF Awaited(body) = "enhanceEmotionToThreeJS"
                 THEN [locals EXCEPT ![r] = GenerateLocals(body.arguments)]
                 ELSE locals
            /\ calls' = [calls EXCEPT ![r][Awaited(body)] = @ + 1]
            /\ UNCHANGED <<user, server, responded, widget>>
    /\ UNCHANGED cacheVars

\* handleToolsCall, generate_mood_scene: from the return of
\* enhanceEmotionToThreeJS (a code string, or an exception) to the Response
\* whether the case calls enhanceEmotionToThreeJS again after a failure: it
\* has no loop around its await
RetriesOnce == TRUE
RetriesOnFailure == FALSE

\* the case as it would be if it took the instance from serverCache again
\* when enhanceEmotionToThreeJS(...) has returned: an identity evicted in
\* the meantime lands in handleHTTPTransport's catch
GenerateReturnsFromCache(r, succeeds, text) ==
    /\ pc[r] = "enhanceEmotionToThreeJS"
    /\ IF ~MapHas(cache, user[r])
       THEN Return(r, TransportCatch)
       ELSE IF succeeds
       THEN Return(r, JsonRpcResultWith(msg[r], "scene", FALSE,
                        Scene(CleanupCode(text), locals[r].emotion,
                              locals[r].height)))
       ELSE Return(r, ToolCatch(msg[r]))
    /\ UNCHANGED cacheVars

\* text is what the model answered; enhanceEmotionToThreeJS returns
\* cleanupCode of it, and the case returns {code, emotion, height}
GenerateReturns(r, succeeds, text) ==
    /\ pc[r] = "enhanceEmotionToThreeJS"
    /\ IF succeeds
       THEN Return(r, JsonRpcResultWith(msg[r], "scene", FALSE,
                        Scene(CleanupCode(text), locals[r].emotion,
                              locals[r].height)))
       ELSE IF RetriesOnFailure /\ calls[r].enhanceEmotionToThreeJS < 2
       THEN /\ calls' = [calls EXCEPT ![r].enhanceEmotionToThreeJS = @ + 1]
            /\ UNCHANGED <<pc, user, server, msg, locals, responded, widget>>
       ELSE Return(r, ToolCatch(msg[r]))
    /\ UNCHANGED cacheVars

\* handleResourcesRead: from the return of loadHtml to the Response; an
\* exception of loadHtml has no handler before handleHTTPTransport's catch
LoadReturns(r, succeeds) ==
    /\ pc[r] = "loadHtml"
    /\ IF succeeds
       THEN Return(r, JsonRpcResult(msg[r], "contents", FALSE))
       ELSE Return(r, TransportCatch)
    /\ UNCHANGED cacheVars

Paths == {"/mcp", "/other"}

\* a model answer that is code and nothing else
PlainText == <<"X">>

\* authenticated requests of three identities to /mcp that all carry a ping
RaceUsers == {1, 2, 3}
Pings(r) == {Body("object", "2.0", Some(r), "ping", "absent", "absent")}

NextRace ==
    \/ \E r \in Requests : Arrive(r)
    \/ \E r \in Requests : Start(r, TRUE)
    \/ \E r \in Requests, k \in RaceUsers : ValidateReturns(r, Valid(k), "/mcp")
    \/ \E r \in Requests : \E body \in Pings(r) : BodyRead(r, body)

SpecRace == Init /\ [][NextRace]_vars

\* requests of one identity, with every message
NextDispatch ==
    \/ \E r \in Requests : Arrive(r)
    \/ \E r \in Requests, hasApiKey \in BOOLEAN : Start(r, hasApiKey)
    \/ \E r \in Requests, outcome \in ValidatorOutcomes({1}),
          pathname \in Paths : ValidateReturns(r, outcome, pathname)
    \/ \E r \in Requests : \E body \in Bodies(r) : BodyRead(r, body)
    \/ \E r \in Requests, succeeds \in BOOLEAN :
          GenerateReturns(r, succeeds, PlainText)
    \/ \E r \in Requests, succeeds \in BOOLEAN : LoadReturns(r, succeeds)

InitDispatch == Construct(1)

SpecDispatch == InitDispatch /\ [][NextDispatch]_vars

\* requests of one identity with one message per way a request can end: at
\* the parser, in the dispatcher, after the generator, after the loader
ProgressBodies(r) ==
    {Body("unparseable", "absent", None, "absent", "absent", "absent"),
     Body("object", "2.0", Some(r), "ping", "absent", "absent"),
     Body("object", "2.0", Some(r), "tools/call", "generate_mood_scene",
          "absent"),
     Body("object", "2.0", Some(r), "resources/read", "absent",
          "ui://moodboard")}

StartsHandler(r) == \E hasApiKey \in BOOLEAN : Start(r, hasApiKey)
ValidatorAnswers(r) ==
    \E outcome \in ValidatorOutcomes({1}), pathname \in Paths :
        ValidateReturns(r, outcome, pathname)
BodyArrives(r) == \E body \in ProgressBodies(r) : BodyRead(r, body)
GeneratorAnswers(r) ==
    \E succeeds \in BOOLEAN : GenerateReturns(r, succeeds, PlainText)
LoaderAnswers(r) == \E succeeds \in BOOLEAN : LoadReturns(r, succeeds)

NextProgress ==
    \/ \E r \in Requests : Arrive(r)
    \/ \E r \in Requests : StartsHandler(r)
    \/ \E r \in Requests : ValidatorAnswers(r)
    \/ \E r \in Requests : BodyArrives(r)
    \/ \E r \in Requests : GeneratorAnswers(r)
    \/ \E r \in Requests : LoaderAnswers(r)

\* The runtime starts the handler of every request it received, and every
\* awaited collaborator eventually returns or fails: the continuation of a
\* suspended request, whichever await it is suspended at, eventually runs.
Continues(r) ==
    \/ StartsHandler(r)
    \/ ValidatorAnswers(r)
    \/ BodyArrives(r)
    \/ GeneratorAnswers(r)
    \/ LoaderAnswers(r)

CollaboratorsAnswer == \A r \in Requests : WF_vars(Continues(r))

SpecProgress ==
    InitDispatch /\ [][NextProgress]_vars /\ CollaboratorsAnswer

\* getOrCreateServer on a miss: registerAppResource(server, uri, uri, ...),
\* registerAppTool(server, "generate_mood_scene", ...),
\* server.registerTool("learn_mood_primitives", ...).  What the instance
\* built for userId has registered, in order, and the user_id its handlers
\* log with.
Registrations(userId) ==
    [resources |-> <<"ui://moodboard">>,
     tools |-> <<"generate_mood_scene", "learn_mood_primitives">>,
     user_id |-> userId]

\* authenticated requests of two identities to /mcp that all ask for the
\* list of tools
ListUsers == {1, 2}
Listings(r) ==
    {Body("object", "2.0", Some(r), "tools/list", "absent", "absent")}

NextListing ==
    \/ \E r \in Requests : Arrive(r)
    \/ \E r \in Requests : Start(r, TRUE)
    \/ \E r \in Requests, k \in ListUsers :
          ValidateReturns(r, Valid(k), "/mcp")
    \/ \E r \in Requests : \E body \in Listings(r) : BodyRead(r, body)

SpecListing == Init /\ [][NextListing]_vars

\* authenticated requests of two identities to /mcp, each of which may find
\* its instance, build it, fail to build it, or be given up
BuildUsers == {1, 2}

NextBuild ==
    \/ \E r \in Requests : Arrive(r)
    \/ \E r \in Requests : Start(r, TRUE)
    \/ \E r \in Requests, k \in BuildUsers :
          ValidateReturns(r, Valid(k), "/mcp")
    \/ \E r \in Requests, k \in BuildUsers : ConstructionFails(r, k)
    \/ \E r \in Requests : Abandon(r)
    \/ \E r \in Requests : \E body \in Pings(r) : BodyRead(r, body)

SpecBuild == Init /\ [][NextBuild]_vars

---------------------------------------------------------------------------
(* The tools of the OAuth path, as Moodboard3DMCP.init registers them: an  *)
(* input schema that the arguments must satisfy before the handler runs,   *)
(* and the handler.                                                        *)

\* inputSchema of generate_mood_scene: emotion z.string().min(1), complexity
\* z.number().int().min(1).max(10).optional(), height
\* z.number().int().positive().optional()
GenerateSchemaAccepts(args) ==
    /\ args.emotion # None /\ args.emotion[1] # ""
    /\ args.complexity # None => args.complexity[1] \in 1..10
    /\ args.height # None => args.height[1] > 0

\* inputSchema of learn_mood_primitives: category z.enum([...]).optional()
LearnSchemaAccepts(args) ==
    args.category # None => args.category[1] \in Categories

\* a destructuring default and ??: d for undefined only
Defaulted(x, d) == IF x = None THEN d ELSE x[1]

\* const { emotion, complexity = 5, height = 600 } = args
AgentLocals(args) ==
    [emotion |-> Defaulted(args.emotion, ""),
     complexity |-> Defaulted(args.complexity, 5),
     height |-> Defaulted(args.height, 600)]

\* the handler of generate_mood_scene after enhanceEmotionToThreeJS
\* returned or failed: { content, structuredContent: {code, emotion,
\* height} }, or { content: "Error generating mood scene: ...", isError }
AgentGenerateResult(args, succeeds, text) ==
    IF succeeds
    THEN [payload |-> "scene", isError |-> FALSE,
          content |-> Scene(CleanupCode(text), AgentLocals(args).emotion,
                            AgentLocals(args).height)]
    ELSE [payload |-> "Error generating mood scene", isError |-> TRUE,
          content |-> NoContent]

\* the handler of learn_mood_primitives: category ?? "all"
AgentLearnResult(args) ==
    [payload |-> "documentation", isError |-> FALSE,
     content |-> [NoContent EXCEPT
                    !.text = Documentation(Defaulted(args.category, "all"))]]

\* authenticated requests of two identities to /mcp that carry a ping or a
\* call of generate_mood_scene, while the cache holds none, one or both of
\* the identities
TwoUsers == {1, 2}
IsolationBodies(r) ==
    {Body("object", "2.0", Some(r), "ping", "absent", "absent"),
     Call(Some(r), "generate_mood_scene",
          Arguments(Some("calm"), None, None, None))}

NextIsolation ==
    \/ \E r \in Requests : Arrive(r)
    \/ \E r \in Requests : Start(r, TRUE)
    \/ \E r \in Requests, k \in TwoUsers :
          ValidateReturns(r, Valid(k), "/mcp")
    \/ \E r \in Requests : \E body \in IsolationBodies(r) : BodyRead(r, body)
    \/ \E r \in Requests, succeeds \in BOOLEAN :
          GenerateReturns(r, succeeds, PlainText)

SpecIsolation == Init /\ [][NextIsolation]_vars

\* One tool call of one caller, with every combination of arguments,
\* answered by a model whose text is any text.
EmotionArgs == {None, Some(""), Some("calm")}
ComplexityArgs == {None} \cup {Some(n) : n \in {0, 3, 11}}
HeightArgs == {None, Some(0), Some(800)}
CategoryArgs == {None} \cup {Some(c) : c \in Categories \cup {"", "shaders"}}

GenerateCalls(r) ==
    {Call(Some(r), "generate_mood_scene",
          Arguments(emotion, complexity, height, None)) :
        emotion \in EmotionArgs, complexity \in ComplexityArgs,
        height \in HeightArgs}
LearnCalls(r) ==
    {Call(Some(r), "learn_mood_primitives",
          Arguments(None, None, None, category)) : category \in CategoryArgs}

Callers == {1}

NextTools ==
    \/ \E r \in Callers : responded = NoResponse /\ Arrive(r)
    \/ \E r \in Callers : Start(r, TRUE)
    \/ \E r \in Callers : ValidateReturns(r, Valid(1), "/mcp")
    \/ \E r \in Callers :
          \E body \in GenerateCalls(r) \cup LearnCalls(r) : BodyRead(r, body)
    \/ \E r \in Callers : GenerateReturns(r, FALSE, PlainText)
    \/ \E r \in Callers, text \in Texts : GenerateReturns(r, TRUE, text)

SpecTools == InitDispatch /\ [][NextTools]_vars

---------------------------------------------------------------------------
(* The prompt visualize-feeling of the OAuth path.  Its complexity         *)
(* argument is a string, here a sequence of characters.                    *)

MaxStringLen == 3
Characters == {" ", "-", ".", "a", "0", "1", "5"}
Strings == UNION {[1..n -> Characters] : n \in 0..MaxStringLen}

Digits == {"0", "1", "5"}
DigitValue(c) == CASE c = "0" -> 0 [] c = "1" -> 1 [] c = "5" -> 5

\* the digits a string starts with, and their value in base 10
RECURSIVE LeadingDigits(_)
LeadingDigits(string) ==
    IF string # <<>> /\ Head(string) \in Digits
    THEN <<Head(string)>> \o LeadingDigits(Tail(string))
    ELSE <<>>
RECURSIVE DecimalValue(_)
DecimalValue(digits) ==
    IF digits = <<>> THEN 0
    ELSE 10 * DecimalValue(SubSeq(digits, 1, Len(digits) - 1))
           + DigitValue(digits[Len(digits)])

\* parseInt(string, 10): leading whitespace is skipped, a sign is read, then
\* digits up to the first other character; NaN (here None) without a digit
ParseInt(string) ==
    LET trimmed == TrimStart(string)
        negative == trimmed # <<>> /\ Head(trimmed) = "-"
        digits == LeadingDigits(IF negative THEN Tail(trimmed) ELSE trimmed)
    IN  IF digits = <<>> THEN None
        ELSE Some(IF negative THEN 0 - DecimalValue(digits)
                              ELSE DecimalValue(digits))

Min(a, b) == IF a <= b THEN a ELSE b
Max(a, b) == IF a >= b THEN a ELSE b

\* const complexityNum = complexity ? parseInt(complexity, 10) : 5;
\* const validComplexity = Math.min(10, Math.max(1, complexityNum || 5))
ValidComplexity(complexity) ==
    LET complexityNum ==
            IF complexity = None \/ complexity[1] = <<>> THEN Some(5)
            ELSE ParseInt(complexity[1])
    IN  Min(10, Max(1, OrNumber(complexityNum, 5)))

\* the handler of the prompt: the text it returns embeds validComplexity
GetPrompt(complexity) ==
    /\ called' = [op |-> "visualize-feeling", key |-> 0, value |-> complexity]
    /\ ret' = Some(ValidComplexity(complexity))
    /\ logged' = <<>>
    /\ UNCHANGED <<cache, maxSize, now, created>>
    /\ UNCHANGED reqVars

ComplexityStrings == {None} \cup {Some(string) : string \in Strings}

NextPrompt == \E complexity \in ComplexityStrings : GetPrompt(complexity)

SpecPrompt == InitDispatch /\ [][NextPrompt]_vars

---------------------------------------------------------------------------
(* The moodboard widget: McpAppWrapper holds four pieces of React state    *)
(* that the app's event handlers set; MoodboardApp renders from two of     *)
(* them and runs one effect.  An event, the render it causes and the       *)
(* effect after that render are one step.                                  *)

DEFAULT_HEIGHT == 600

\* MoodboardToolInput: { code?, emotion?, height? }
ToolInputs ==
    [code : {None, Some("input code")}, emotion : {None, Some("calm")},
     height : {None, Some(800)}]

\* CallToolResult as generate_mood_scene returns it: structuredContent with
\* the generated code, or an error without
ToolResults ==
    {[isError |-> FALSE, code |-> Some("generated code")],
     [isError |-> TRUE, code |-> None]}

HostContexts == {"light", "dark"}

\* field of an optional object: x?.field
Optional(x, field) == IF x = None THEN None ELSE x[1][field]

\* const height = toolInputs?.height ?? toolInputsPartial?.height ??
\* DEFAULT_HEIGHT
WidgetHeight(w) ==
    Defaulted(Optional(w.toolInputs, "height"),
              Defaulted(Optional(w.toolInputsPartial, "height"),
                        DEFAULT_HEIGHT))

\* const code = toolInputs?.code || DEFAULT_THREEJS_CODE
WidgetCode(w) ==
    OrString(Optional(w.toolInputs, "code"), "DEFAULT_THREEJS_CODE")

\* const isStreaming = !toolInputs && !!toolInputsPartial
IsStreaming(w) == w.toolInputs = None /\ w.toolInputsPartial # None

\* what McpAppWrapper and MoodboardApp return: the error of useApp, the
\* "Connecting..." div, LoadingShimmer, or the container with the canvas
ShowsCanvasWhileStreaming(w) ==
    IF w.app = "error" THEN "error"
    ELSE IF w.app = "connecting" THEN "connecting"
    ELSE IF w.toolInputs = None /\ w.toolInputsPartial = None THEN "loading"
    ELSE "canvas"
View(w) ==
    IF w.app = "error" THEN "error"
    ELSE IF w.app = "connecting" THEN "connecting"
    ELSE IF IsStreaming(w) \/ w.toolInputs = None THEN "loading"
    ELSE "canvas"

\* the render of MoodboardApp and its useEffect(..., [code, height]): the
\* effect runs after the first render and after a render in which code or
\* height changed; it returns at once while there is no canvas, else it
\* calls executeThreeCode(code, canvas, width, height)
Rendered(w) ==
    LET deps == <<WidgetCode(w), WidgetHeight(w)>>
    IN  IF w.app # "connected" \/ w.deps = Some(deps) THEN w
        ELSE [w EXCEPT !.deps = Some(deps),
                       !.executed = IF View(w) = "canvas"
                                    THEN Some(WidgetCode(w)) ELSE @]

\* useApp: the connection to the host succeeds or fails
Connect(succeeds) ==
    /\ widget.app = "connecting"
    /\ widget' = Rendered([widget EXCEPT !.app = IF succeeds THEN "connected"
                                                 ELSE "error"])
    /\ UNCHANGED cacheVars
    /\ UNCHANGED <<pc, user, server, msg, locals, calls, responded>>

\* appInstance.ontoolinput
ToolInput(input) ==
    /\ widget.app = "connected"
    /\ widget' = Rendered([widget EXCEPT !.toolInputs = Some(input),
                                         !.toolInputsPartial = None])
    /\ UNCHANGED cacheVars
    /\ UNCHANGED <<pc, user, server, msg, locals, calls, responded>>

\* appInstance.ontoolinputpartial
ToolInputPartial(input) ==
    /\ widget.app = "connected"
    /\ widget' = Rendered([widget EXCEPT !.toolInputsPartial = Some(input)])
    /\ UNCHANGED cacheVars
    /\ UNCHANGED <<pc, user, server, msg, locals, calls, responded>>

\* appInstance.ontoolresult
ToolResult(result) ==
    /\ widget.app = "connected"
    /\ widget' = Rendered([widget EXCEPT !.toolResult = Some(result)])
    /\ UNCHANGED cacheVars
    /\ UNCHANGED <<pc, user, server, msg, locals, calls, responded>>

\* appInstance.onhostcontextchanged
HostContextChanged(context) ==
    /\ widget.app = "connected"
    /\ widget' = Rendered([widget EXCEPT !.hostContext = Some(context)])
    /\ UNCHANGED cacheVars
    /\ UNCHANGED <<pc, user, server, msg, locals, calls, responded>>

\* the widget under any events of the host, in any order
NextWidget ==
    \/ \E succeeds \in BOOLEAN : Connect(succeeds)
    \/ \E input \in ToolInputs : ToolInput(input)
    \/ \E input \in ToolInputs : ToolInputPartial(input)
    \/ \E result \in ToolResults : ToolResult(result)
    \/ \E context \in HostContexts : HostContextChanged(context)

SpecWidget == InitDispatch /\ [][NextWidget]_vars

---------------------------------------------------------------------------
(* Properties *)

\* the entry stored under a key that is present
Entry(c, k) == c[MapIndex(c, k)]

\* the keys a step removes from the cache
Removed == MapKeys(cache) \ MapKeys(cache')

\* the entries of the cache other than k's are the same, in the same order
OthersUntouched(k) ==
    /\ Len(cache') = Len(cache)
    /\ \A i \in 1..Len(cache) :
        /\ cache'[i].key = cache[i].key
        /\ cache[i].key # k => cache'[i] = cache[i]

\* C1: with a capacity of at least 1, after every completed operation the
\* number of entries is at most the capacity.
C1_CapacityInvariant == maxSize >= 1 => Len(cache) <= maxSize

\* a set has just evicted an entry of a full cache and the cache is full again
C1_Witness ==
    /\ maxSize >= 1
    /\ called.op = "set"
    /\ logged # <<>>
    /\ Len(cache) = maxSize

\* C2: whenever a set of an absent key removes an entry, that entry's
\* lastAccessed is at most the lastAccessed of every entry the cache held.
C2_VictimIsOldest ==
    [][(called'.op = "set" /\ ~MapHas(cache, called'.key)) =>
        \A x \in Removed : \A i \in 1..Len(cache) :
            Entry(cache, x).lastAccessed <= cache[i].lastAccessed]_vars

\* a set has evicted from a cache of two or more entries, and an entry that
\* sits before the new one is as recent as the clock: the scan passed it over
C2_Witness ==
    /\ called.op = "set"
    /\ logged # <<>>
    /\ Len(cache) >= 2
    /\ cache[1].lastAccessed = now
    /\ now > 0

\* C5: a set of a key that is present evicts nothing: the keys, their order
\* and the size stay, the key's entry holds the new instance and the current
\* time, and every other entry is as it was.
C5_OverwriteNeverEvicts ==
    [][(called'.op = "set" /\ MapHas(cache, called'.key)) =>
        /\ logged' = <<>>
        /\ Removed = {}
        /\ OthersUntouched(called'.key)
        /\ Entry(cache', called'.key).value = called'.value[1]
        /\ Entry(cache', called'.key).lastAccessed = now']_vars

\* a set has overwritten a key of a full cache: the key it stored is not the
\* last in Map order, where a new key would be
C5_Witness ==
    /\ called.op = "set"
    /\ Len(cache) = maxSize
    /\ Len(cache) >= 2
    /\ cache[1].key = called.key
    /\ cache[1].lastAccessed > cache[2].lastAccessed

\* C6: a set of an absent key on a cache that holds capacity entries removes
\* exactly one entry and inserts the new key: the size is the capacity again,
\* the new key is present, the other entries are as they were; with capacity
\* 1 the new key is the only entry.
C6_FullInsertEvictsOne ==
    [][(called'.op = "set" /\ ~MapHas(cache, called'.key)
            /\ Len(cache) = maxSize) =>
        /\ Cardinality(Removed) = 1
        /\ Len(logged') = 1
        /\ Len(cache') = maxSize
        /\ MapHas(cache', called'.key)
        /\ Entry(cache', called'.key).value = called'.value[1]
        /\ \A x \in MapKeys(cache) \ Removed :
               Entry(cache', x) = Entry(cache, x)
        /\ maxSize = 1 => MapKeys(cache') = {called'.key}]_vars

\* a set into a cache of capacity 1 has evicted the sole entry
C6_Witness ==
    /\ maxSize = 1
    /\ called.op = "set"
    /\ logged # <<>>
    /\ MapKeys(cache) = {called.key}
    /\ logged[1].evicted_user_id # called.key

\* C7: has changes no entry and reads no clock, returns whether the key is
\* present, and leaves the choice of the next eviction as it was.
C7_HasIsPure ==
    [][called'.op = "has" =>
        /\ cache' = cache
        /\ now' = now
        /\ logged' = <<>>
        /\ ret' = Some(MapHas(cache, called'.key))
        /\ EvictLRU(cache') = EvictLRU(cache)]_vars

\* has has answered true for an entry that is not the most recent one and
\* that an eviction would choose
C7_Witness ==
    /\ called.op = "has"
    /\ ret = Some(TRUE)
    /\ Len(cache) >= 2
    /\ Entry(cache, called.key).lastAccessed < now
    /\ EvictLRU(cache).logged[1].evicted_user_id = called.key

\* C8: get of a present key returns the instance last stored under it and
\* sets that key's lastAccessed, and nothing else, to the current time; get of
\* an absent key returns undefined and changes nothing.  (An instance is the
\* one last stored under its key: a set stores its argument, and no other
\* step changes the instance of a key that stays.)
C8_GetReturnsStored ==
    [][/\ called'.op = "get" =>
            IF MapHas(cache, called'.key)
            THEN /\ ret' = Some(Entry(cache, called'.key).value)
                 /\ OthersUntouched(called'.key)
                 /\ Entry(cache', called'.key) =
                        [Entry(cache, called'.key) EXCEPT !.lastAccessed = now']
                 /\ now' >= now
                 /\ logged' = <<>>
            ELSE /\ ret' = None
                 /\ cache' = cache
                 /\ now' = now
                 /\ logged' = <<>>
       /\ \A k \in MapKeys(cache') :
            IF called'.op = "set" /\ called'.key = k
            THEN Entry(cache', k).value = called'.value[1]
            ELSE MapHas(cache, k)
                    /\ Entry(cache', k).value = Entry(cache, k).value]_vars

\* get has returned the instance of a key and made it more recent than
\* another entry that was stored after it
C8_Witness ==
    /\ called.op = "get"
    /\ ret # None
    /\ Len(cache) >= 2
    /\ cache[1].key = called.key
    /\ ret = Some(cache[1].value)
    /\ cache[1].lastAccessed = now
    /\ cache[2].lastAccessed < now

\* C3 (as claimed): in a full cache of capacity 2 or more whose first key
\* was just re-accessed via get, and no other key ever was, the insert of a
\* new key keeps the first key and evicts the untouched key of smallest
\* recency, whatever non-decreasing readings the clock gave.
C3_TouchProtectsFirst ==
    [][(called'.op = "set" /\ called.op = "get" /\ ret # None
            /\ maxSize >= 2 /\ Len(cache) = maxSize) =>
        /\ MapHas(cache', cache[1].key)
        /\ \A x \in Removed : \A i \in 2..Len(cache) :
               Entry(cache, x).lastAccessed <= cache[i].lastAccessed]_vars

\* C4: in runs without get and without overwrite, the insert of a new key
\* into a full cache evicts the key inserted first and keeps the others:
\* with capacity 2, after set u1, set u2, set u3 the size is 2, has(u1) is
\* false, has(u2) and has(u3) are true, also when clock readings are equal.
C4_InsertEvictsFirstInserted ==
    [][(called'.op = "set" /\ Len(cache) = maxSize) =>
        /\ Removed = {cache[1].key}
        /\ LRUSize(cache') = maxSize
        /\ ~LRUHas(cache', cache[1].key).ret
        /\ LRUHas(cache', called'.key).ret
        /\ \A i \in 2..Len(cache) : LRUHas(cache', cache[i].key).ret]_vars

\* capacity 2: u1, u2, u3 were inserted at one and the same clock reading,
\* u1 was evicted, u2 and u3 are the entries
C4_Witness ==
    /\ maxSize = 2
    /\ called.op = "set"
    /\ logged # <<>>
    /\ logged[1].evicted_user_id = 1
    /\ Len(cache) = 2
    /\ cache[1].key = 2
    /\ cache[2].key = 3
    /\ cache[1].lastAccessed = cache[2].lastAccessed

\* what a lookup does to the cache: LRUCache.get, or getOrCreateServer
Lookup(byServer, c, n, k, t) ==
    IF byServer THEN GetOrCreate(c, maxSize, n, k, t)
    ELSE [cache |-> LRUGet(c, k, t).cache, ret |-> LRUGet(c, k, t).ret,
          logged |-> <<>>, created |-> n]

\* C9: for a cached key, two lookups in immediate succession (each a get or
\* a getOrCreateServer, at any clock readings) both return the cached
\* instance, construct no server and evict nothing.
C9_IdempotentHit ==
    \A k \in MapKeys(cache) : \A first, second \in BOOLEAN :
        \A t1 \in ClockReadings(now) : \A t2 \in ClockReadings(t1) :
            LET a == Lookup(first, cache, created, k, t1)
                b == Lookup(second, a.cache, a.created, k, t2)
            IN  /\ a.ret = Some(Entry(cache, k).value)
                /\ b.ret = a.ret
                /\ b.created = created
                /\ a.logged = <<>> /\ b.logged = <<>>
                /\ MapKeys(b.cache) = MapKeys(cache)
                /\ Entry(b.cache, k).value = Entry(cache, k).value

\* getOrCreateServer has returned an instance that is not the one constructed
\* last: a hit, after which the cache still holds that instance
C9_Witness ==
    /\ called.op = "getOrCreateServer"
    /\ created >= 2
    /\ ret # None
    /\ ret[1] < NumInstances + created
    /\ MapHas(cache, called.key)
    /\ Entry(cache, called.key).value = ret[1]

\* C10 (as claimed): a cache whose capacity is zero or negative is never
\* constructed, so none ever accepts an insert.
C10_NonPositiveCapacityRejected == maxSize <= 0 => cache = <<>>

---------------------------------------------------------------------------
(* Properties of the request handler *)

\* the entries the cache holds for identity k
EntriesOf(c, k) == {i \in 1..Len(c) : c[i].key = k}

\* the instance cached for identity k (0: none)
CachedFor(c, k) == IF MapHas(c, k) THEN Entry(c, k).value ELSE 0

\* request r leaves await validateApiKey with a credential that is valid
\* for identity k and a /mcp path: the step that runs getOrCreateServer
LooksUp(r, k) ==
    /\ pc[r] = "validateApiKey"
    /\ pc'[r] \in {"request.json", "constructing"}
    /\ user'[r] = k

\* C11: whenever a request's lookup of its identity completes, the cache
\* holds exactly one entry for that identity; a server is built in that step
\* only if the identity was absent, and then it is the one stored; if the
\* identity was present (a racing request of the same identity inserted it)
\* nothing is built and the stored instance stays.  So of two requests that
\* race on a cold identity one builds, the other reuses.
C11_OneBuildPerColdStart ==
    [][\A r \in Requests, k \in RaceUsers :
        LooksUp(r, k) =>
            /\ Cardinality(EntriesOf(cache', k)) = 1
            /\ ret' = Some(CachedFor(cache', k))
            /\ IF MapHas(cache, k)
               THEN created' = created
                    /\ CachedFor(cache', k) = CachedFor(cache, k)
               ELSE created' = created + 1
                    /\ CachedFor(cache', k) = NumInstances + created']_vars

\* both requests of one identity are past their lookup while the other is
\* still in flight, one server was ever built, and it is the one both hold
C11_Witness ==
    /\ pc[1] = "request.json" /\ pc[2] = "request.json"
    /\ user[1] = user[2]
    /\ created = 1
    /\ server[1] = server[2]
    /\ CachedFor(cache, user[1]) = server[1]

\* C12 (as claimed): any two requests of the same identity that hold an
\* instance from getOrCreateServer hold the same instance.
C12_SameInstance ==
    \A r1, r2 \in Requests :
        user[r1] # 0 /\ user[r1] = user[r2] => server[r1] = server[r2]

\* C12 (amended): a lookup for identity k returns the instance that a
\* request of the same identity already holds, whenever that instance is
\* still the one cached for k, that is, whenever k's entry was not evicted
\* between the two lookups.
C12_SameInstanceWhileCached ==
    [][\A r, r2 \in Requests, k \in RaceUsers :
        /\ LooksUp(r, k)
        /\ user[r2] = k
        /\ CachedFor(cache, k) = server[r2]
        => server'[r] = server[r2]]_vars

\* two requests of one identity hold the same instance although a request of
\* another identity was served and cached in between
C12_Witness ==
    /\ pc[1] = "request.json" /\ pc[2] = "request.json"
    /\ user[1] = user[2]
    /\ server[1] = server[2]
    /\ Len(cache) = 2
    /\ created = 2

\* C13: the miss check, the construction and the insert of a request are one
\* step: a lookup that misses leaves its identity cached and no request
\* between check and insert.  If the cache was full, the step removes exactly
\* one entry, one that was present, and reports exactly that one; otherwise
\* it removes none.
C13_AtomicInsert ==
    [][\A r \in Requests, k \in RaceUsers :
        LooksUp(r, k) /\ ~MapHas(cache, k) =>
            /\ MapHas(cache', k)
            /\ \A r2 \in Requests : pc'[r2] # "constructing"
            /\ IF Len(cache) >= maxSize
               THEN /\ Cardinality(Removed) = 1
                    /\ Len(cache') = Len(cache)
                    /\ Len(logged') = 1
                    /\ logged'[1].evicted_user_id \in Removed
               ELSE /\ Removed = {}
                    /\ Len(cache') = Len(cache) + 1
                    /\ logged' = <<>>]_vars

\* a request's insert has just evicted the identity of another request that
\* is still in flight
C13_Witness ==
    /\ called.op = "getOrCreateServer"
    /\ Len(logged) = 1
    /\ \E r \in Requests :
        /\ pc[r] = "request.json"
        /\ user[r] = logged[1].evicted_user_id
        /\ ~MapHas(cache, user[r])

\* the Response r as returned to request req
Sent(req, r) ==
    [req |-> req, status |-> r.status, jsonrpc |-> r.jsonrpc, id |-> r.id,
     error |-> r.error, message |-> r.message, result |-> r.result]

\* messages that are no JSON-RPC request: no JSON, no object, no or a wrong
\* version marker, no method
Malformed(r) ==
    {body \in Bodies(r) :
        body.kind # "object" \/ body.jsonrpc # "2.0" \/ body.method = "absent"}

\* C14 (as claimed): a request whose message is malformed is answered with
\* a protocol error, and getOrCreateServer was not called for it.
C14_MalformedSkipsCache ==
    [][\A r \in Requests : \A body \in Malformed(r) :
        BodyRead(r, body) =>
            /\ responded'.req = r
            /\ responded'.error # None
            /\ calls[r].getOrCreateServer = 0]_vars

\* messages that parsed to an object whose envelope is broken
BadEnvelopes(r) ==
    {body \in Bodies(r) :
        body.kind = "object"
        /\ (body.jsonrpc # "2.0" \/ body.method = "absent")}

\* C15 (as claimed): a message whose version marker is missing or not "2.0",
\* or whose method is missing, is answered with error -32600, and no
\* handler's collaborator is called for it.
C15_BadEnvelopeIsInvalidRequest ==
    [][\A r \in Requests : \A body \in BadEnvelopes(r) :
        BodyRead(r, body) =>
            /\ responded'.req = r
            /\ responded'.error = Some(InvalidRequest)
            /\ pc'[r] = "idle"]_vars

\* well-formed messages whose method the switch does not name
UnknownMethodBodies(r) ==
    {Body("object", "2.0", id, "other", "absent", "absent") : id \in IdsOf(r)}

\* C16: a well-formed message with a method outside the seven supported
\* ones is answered, in the step that reads it, with error -32601 under the
\* message's id and without a result; no collaborator was or is called for
\* it beyond the validator, and the cache with its instances stays as it is.
C16_UnknownMethodNotFound ==
    [][\A r \in Requests : \A body \in UnknownMethodBodies(r) :
        pc[r] = "request.json" /\ BodyRead(r, body) =>
            /\ responded' = Sent(r, JsonRpcError(body.id, MethodNotFound,
                                                 "Method not found"))
            /\ pc'[r] = "idle"
            /\ calls[r].enhanceEmotionToThreeJS = 0
            /\ calls[r].loadHtml = 0
            /\ UNCHANGED cacheVars]_vars

\* an unknown method of a message with an id has just been refused while
\* the sender's instance is cached
C16_Witness ==
    /\ responded.error = Some(MethodNotFound)
    /\ responded.id = Some(responded.req)
    /\ cache # <<>>

\* C17: a request without a credential, and one whose credential the
\* validator rejects, is answered 401 in a step that leaves the cache alone,
\* and getOrCreateServer was not called for it; every step that reads or
\* writes the cache is the continuation of a request whose credential the
\* validator has just accepted.
C17_NoCacheBeforeAuth ==
    [][/\ \A r \in Requests :
            Start(r, FALSE) \/ (\E p \in Paths : ValidateReturns(r, Invalid, p))
            => /\ responded'.req = r
               /\ responded'.status = Unauthorized
               /\ calls[r].getOrCreateServer = 0
               /\ UNCHANGED cacheVars
       /\ cacheVars' # cacheVars =>
            \E r \in Requests, p \in Paths : ValidateReturns(r, Valid(1), p)
      ]_vars

\* a rejected credential has just been answered 401 while another request
\* of a valid credential is in flight and its identity is cached
C17_Witness ==
    /\ responded.status = Unauthorized
    /\ responded.message = "Invalid or expired API key"
    /\ cache # <<>>
    /\ \E r \in Requests : pc[r] = "request.json"

\* C19 (as claimed): every Response to a request whose message parsed and
\* carried an id carries that id, whether it is returned when the message is
\* read or after a collaborator; the placeholder id is used only for a body
\* that did not parse to a message.
C19_ResponseEchoesId ==
    [][\A r \in Requests :
        /\ pc[r] = "request.json" /\ pc'[r] = "idle" =>
              \A body \in Bodies(r) : BodyRead(r, body) =>
                /\ body.id # None => responded'.id = body.id
                /\ responded'.id = PlaceholderId => body.kind # "object"
        /\ pc[r] \in {"enhanceEmotionToThreeJS", "loadHtml"}
           /\ pc'[r] = "idle" /\ msg[r] # None
           => responded'.id = msg[r]]_vars

\* C20: when enhanceEmotionToThreeJS fails, the request is answered in that
\* step with a JSON-RPC result under the message's id whose isError is true,
\* without an error member, and the cache stays as it is.
C20_GenerationFailureIsToolError ==
    [][\A r \in Requests :
        GenerateReturns(r, FALSE, PlainText) =>
            /\ responded' = Sent(r, JsonRpcResult(msg[r], "Error", TRUE))
            /\ responded'.error = None
            /\ pc'[r] = "idle"
            /\ UNCHANGED cacheVars]_vars

\* a failed generation of a message with an id has just been answered
C20_Witness ==
    /\ responded.result = JsonRpcResult(None, "Error", TRUE).result
    /\ responded.id = Some(responded.req)
    /\ cache # <<>>

\* request r is answered in this step
Answered(r) == pc[r] # "idle" /\ pc'[r] = "idle"

\* C18: if every awaited collaborator eventually returns or fails, every
\* request that was received is eventually over; it ends only by a Response
\* returned to it (never by an exception that escapes the handler), and a
\* Response is returned only to a request that ends with it: one each.
C18_EveryRequestAnswered ==
    /\ \A r \in Requests : (pc[r] # "idle") ~> (pc[r] = "idle")
    /\ [][/\ \A r \in Requests :
              /\ Answered(r) =>
                    /\ responded'.req = r
                    /\ responded'.status \in
                         {OK, BadRequest, Unauthorized, InternalServerError}
              /\ pc'[r] # "failed"
          /\ responded' # responded => \E r \in Requests : Answered(r)
         ]_vars

\* the validator failed and its request has been answered with a 500
C18_Witness ==
    /\ responded.status = InternalServerError
    /\ pc[responded.req] = "idle"

\* C21 (as claimed): when loadHtml fails during a resources/read of the
\* widget's uri, the Response carries the id of the request's message and
\* does not report a parse error, the error of a message that could not be
\* dispatched.
C21_AssetFailureIsCorrelated ==
    [][\A r \in Requests :
        LoadReturns(r, FALSE) =>
            /\ responded'.req = r
            /\ responded'.id = msg[r]
            /\ responded'.error # Some(ParseError)]_vars

---------------------------------------------------------------------------
(* Properties of the tools *)

\* the step of request r that reads message body
Reads(r, body) == pc[r] = "request.json" /\ BodyRead(r, body)

\* C22 (as claimed): a generate_mood_scene call whose emotion is missing or
\* the empty string is answered with an error response at once, and
\* enhanceEmotionToThreeJS is not called for it.
C22_EmptyEmotionRejected ==
    [][\A r \in Callers : \A body \in GenerateCalls(r) :
        (body.arguments.emotion \in {None, Some("")} /\ Reads(r, body)) =>
            /\ pc'[r] # "enhanceEmotionToThreeJS"
            /\ responded'.req = r
            /\ responded'.error # None]_vars

\* C23 (as claimed): the complexity enhanceEmotionToThreeJS is called with
\* is an integer from 1 to 10.
C23_ComplexityInRange ==
    \A r \in Callers :
        pc[r] = "enhanceEmotionToThreeJS" => locals[r].complexity \in 1..10

\* C30 (as claimed): learn_mood_primitives answers with the text of the
\* requested category, of "all" when none is given, and with an error and no
\* result when the category is not one of the five.
C30_DocumentationOrValidationError ==
    [][\A r \in Callers : \A body \in LearnCalls(r) :
        Reads(r, body) =>
            LET category == body.arguments.category
            IN  IF category = None
                THEN responded'.result =
                       Some([payload |-> "documentation", isError |-> FALSE,
                             content |-> [NoContent EXCEPT
                                            !.text = Some("all")]])
                ELSE IF category[1] \in Categories
                THEN responded'.result =
                       Some([payload |-> "documentation", isError |-> FALSE,
                             content |-> [NoContent EXCEPT
                                            !.text = category]])
                ELSE /\ responded'.error # None
                     /\ responded'.result = None]_vars

\* generate_mood_scene calls that satisfy the tool's input schema: a
\* non-empty emotion, a complexity from 1 to 10 or none, a positive height
\* or none
ValidGenerateCalls(r) ==
    {body \in GenerateCalls(r) :
        /\ body.arguments.emotion \notin {None, Some("")}
        /\ body.arguments.complexity \in {None} \cup {Some(n) : n \in 1..10}
        /\ body.arguments.height \in {None} \cup {Some(n) : n \in 1..800}}

\* the value of an argument, or a default when the argument is absent
OrDefault(x, d) == IF x = None THEN d ELSE x[1]

\* a valid call reaches enhanceEmotionToThreeJS with the emotion supplied
\* and the complexity supplied or 5, and keeps the height supplied or 600
PassesArguments(r, body) ==
    /\ pc'[r] = "enhanceEmotionToThreeJS"
    /\ calls'[r].enhanceEmotionToThreeJS = 1
    /\ locals'[r].emotion = body.arguments.emotion[1]
    /\ locals'[r].complexity = OrDefault(body.arguments.complexity, 5)
    /\ locals'[r].height = OrDefault(body.arguments.height, 600)

\* the result of the call answered in this step
SceneOf(resp) == resp.result[1].content

\* the answer is a result, not an error, with the call's emotion and height
AnswersScene(r) ==
    /\ responded'.req = r
    /\ responded'.id = msg[r]
    /\ responded'.error = None
    /\ responded'.result # None
    /\ ~responded'.result[1].isError
    /\ SceneOf(responded').emotion = locals[r].emotion
    /\ SceneOf(responded').height = locals[r].height

IsBare(text) ==
    /\ Trim(text) = text
    /\ ~StartsWith(text, <<"fence">>)
    /\ ~EndsWith(text, <<"fence">>)
    /\ ~StartsWith(text, <<"javascript">>)
    /\ ~StartsWith(text, <<"js">>)

\* a bare text as a model may wrap it: in whitespace, behind an opening
\* fence with or without a language tag, before a closing fence
Openings == {<<>>, <<"fence">>, <<"fence", "javascript">>, <<"fence", "js">>}
Closings == {<<>>, <<"fence">>}
Paddings == {<<>>, <<" ">>}
Wrappings(code) ==
    {before \o opening \o code \o closing \o after :
        before \in Paddings, opening \in Openings, closing \in Closings,
        after \in Paddings}

\* the bare texts a text is a wrapping of
Unwrapped(text) ==
    {code \in Texts : IsBare(code) /\ text \in Wrappings(code)}

C27_NoRetries ==
    \A r \in Requests :
        /\ calls[r].validateApiKey <= 1
        /\ calls[r].enhanceEmotionToThreeJS <= 1
        /\ calls[r].loadHtml <= 1

\* enhanceEmotionToThreeJS has failed, and the request was answered with the
\* tool error after its one call
C27_Witness ==
    /\ responded.req \in Requests
    /\ responded.result = ToolCatch(None).result
    /\ pc[responded.req] = "idle"
    /\ calls[responded.req].enhanceEmotionToThreeJS = 0

---------------------------------------------------------------------------
(* Properties of the eviction log and of construction *)

\* C28: an operation that evicts logs exactly one lru_cache_eviction event,
\* which names the key it removed; an operation that removes nothing (a set
\* that does not evict, a get, a has, a size) logs no event.
C28_OneEventPerEviction ==
    [][/\ Removed # {} =>
            /\ Len(logged') = 1
            /\ logged'[1].event = "lru_cache_eviction"
            /\ Removed = {logged'[1].evicted_user_id}
       /\ Removed = {} => logged' = <<>>]_vars

\* a set of a new key into a full cache has removed one key and logged it
C28_Witness ==
    /\ called.op = "set"
    /\ Len(cache) = maxSize
    /\ Len(logged) = 1
    /\ logged[1].evicted_user_id \notin MapKeys(cache)
    /\ logged[1].evicted_user_id # called.key

\* C25: every tools/list is answered with generate_mood_scene, then
\* learn_mood_primitives, whoever asks and whatever the cache holds; and the
\* instances built for any two identities in the cache have registered the
\* same tools and the same resources under the same names.
C25_SameCapabilities ==
    /\ [][\A r \in Requests :
            (pc[r] = "request.json" /\ pc'[r] = "idle") =>
                /\ responded'.req = r
                /\ responded'.result # None
                /\ responded'.result[1].content.tools =
                     <<"generate_mood_scene", "learn_mood_primitives">>]_vars
    /\ [](\A a, b \in MapKeys(cache) :
            /\ Registrations(a).tools = Registrations(b).tools
            /\ Registrations(a).resources = Registrations(b).resources
            /\ Registrations(a).tools = ToolsList)

\* the second identity got the list while the cache holds the instances of
\* both
C25_Witness ==
    /\ MapKeys(cache) = ListUsers
    /\ responded.result # None
    /\ responded.result[1].content.tools = ToolsList
    /\ cache[Len(cache)].key = 2
    /\ cache[Len(cache)].lastAccessed = now

---------------------------------------------------------------------------
(* The API-key path against the OAuth path *)

\* the arguments of a generate_mood_scene call whose handler holds locals l
\* (every argument was supplied, or defaulted to what l holds)
ArgumentsOf(l) ==
    Arguments(Some(l.emotion), Some(l.complexity), Some(l.height), None)

\* request r is answered in this step with an error, without a call of
\* enhanceEmotionToThreeJS
RejectedAtOnce(r) ==
    /\ pc'[r] = "idle"
    /\ responded'.req = r
    /\ \/ responded'.error # None
       \/ responded'.result # None /\ responded'.result[1].isError

\* C26 (as claimed): for the same tool, arguments and collaborator
\* behaviour, handleToolsCall of the API-key path and the tool registered on
\* the OAuth path agree: on whether the call is rejected by validation, on
\* whether enhanceEmotionToThreeJS is called and with which arguments, and
\* on the result.
C26_PathsAgree ==
    [][\A r \in Callers :
        /\ pc[r] = "request.json" =>
              \A body \in GenerateCalls(r) : BodyRead(r, body) =>
                  IF GenerateSchemaAccepts(body.arguments)
                  THEN /\ pc'[r] = "enhanceEmotionToThreeJS"
                       /\ locals'[r] = AgentLocals(body.arguments)
                  ELSE RejectedAtOnce(r)
        /\ pc[r] = "request.json" =>
              \A body \in LearnCalls(r) : BodyRead(r, body) =>
                  IF LearnSchemaAccepts(body.arguments)
                  THEN /\ responded'.req = r
                       /\ responded'.result =
                            Some(AgentLearnResult(body.arguments))
                  ELSE RejectedAtOnce(r)
        /\ pc[r] = "enhanceEmotionToThreeJS" =>
              /\ GenerateReturns(r, FALSE, PlainText) =>
                    responded'.result =
                      Some(AgentGenerateResult(ArgumentsOf(locals[r]),
                                               FALSE, PlainText))
              /\ \A text \in Texts : GenerateReturns(r, TRUE, text) =>
                    responded'.result =
                      Some(AgentGenerateResult(ArgumentsOf(locals[r]),
                                               TRUE, text))]_vars

---------------------------------------------------------------------------
(* Properties of construction *)

\* C29: a request that has not reached serverCache.set leaves the cache as
\* it was, also in the step in which the construction of its instance fails
\* or in which it is given up; and no entry of the cache ever holds an
\* instance that is not fully registered.
C29_NoHalfRegisteredEntry ==
    /\ [][\A r \in Requests :
            (/\ pc[r] \in {"idle", "received", "validateApiKey"}
             /\ pc'[r] # pc[r]
             /\ pc'[r] # "request.json") => cache' = cache]_vars
    /\ [](\A i \in 1..Len(cache) : cache[i].value # HalfRegistered)

\* the construction for an identity has just failed while the cache holds
\* another identity's instance: the request got the 500 and the identity is
\* still not cached
C29_Witness ==
    /\ called.op = "getOrCreateServer"
    /\ ret = None
    /\ ~MapHas(cache, called.key)
    /\ cache # <<>>
    /\ responded.status = InternalServerError

---------------------------------------------------------------------------
(* Properties of the two paths' instances *)

\* C31 (as claimed): a request over the OAuth path resolves its instance
\* through serverCache: afterwards the identity has an entry, which counts
\* toward the capacity, and the entry is the most recently accessed.
C31_AgentUsesServerCache ==
    [][\A k \in Keys :
        AgentServes(k) =>
            /\ MapHas(cache', k)
            /\ Entry(cache', k).lastAccessed = now'
            /\ Len(cache') <= maxSize]_vars

---------------------------------------------------------------------------
(* Properties of the eviction order *)

\* entry i of c has the smallest lastAccessed and is the first in the order
\* of the map to have it
IsFirstOldest(c, i) ==
    \A j \in 1..Len(c) :
        /\ j < i => c[j].lastAccessed > c[i].lastAccessed
        /\ j > i => c[j].lastAccessed >= c[i].lastAccessed

\* C32: the key an operation evicts is determined by the cache it finds: it
\* is the key of the entry that comes first in the order of the map among
\* the entries of smallest lastAccessed; and a set that overwrites a key
\* leaves every key at its position in that order.
C32_EvictionIsDeterministic ==
    [][/\ Removed # {} =>
            \E i \in 1..Len(cache) :
                /\ IsFirstOldest(cache, i)
                /\ Removed = {cache[i].key}
       /\ (called'.op = "set" /\ MapHas(cache, called'.key)) =>
            /\ Len(cache') = Len(cache)
            /\ \A i \in 1..Len(cache) : cache'[i].key = cache[i].key]_vars

\* every entry was last accessed at the one reading the clock ever gave, a
\* set of a new key has evicted one of them, and the cache holds two again
C32_Witness ==
    /\ called.op = "set"
    /\ now = 0
    /\ Len(logged) = 1
    /\ Len(cache) = 2
    /\ cache[2].key = called.key

---------------------------------------------------------------------------
(* Properties of the widget *)

\* C33 (as claimed): when the widget receives a tool result that carries
\* generated code, it executes that code on the canvas (at the latest once
\* it shows the canvas).
C33_ResultCodeIsExecuted ==
    [][\A result \in ToolResults :
        (result.code # None /\ ToolResult(result)
            /\ View(widget') = "canvas") =>
                widget'.executed = result.code]_vars

\* C39: while connected and before a complete tool input the widget shows
\* the loading view; a complete tool input is stored and clears the partial
\* one; from then on the widget shows the canvas, whatever event follows.
C39_LoadingThenCanvasForever ==
    /\ [](widget.app = "connected" =>
            View(widget) = (IF widget.toolInputs = None THEN "loading"
                                                        ELSE "canvas"))
    /\ [](View(widget) = "canvas" => widget.toolInputs # None)
    /\ [][\A input \in ToolInputs :
            ToolInput(input) =>
                /\ widget'.toolInputs = Some(input)
                /\ widget'.toolInputsPartial = None
                /\ View(widget') = "canvas"]_vars
    /\ [][View(widget) = "canvas" => View(widget') = "canvas"]_vars

\* the canvas is shown although a partial input, a tool result and a host
\* context arrived after the complete tool input
C39_Witness ==
    /\ View(widget) = "canvas"
    /\ widget.toolInputsPartial # None
    /\ widget.toolResult # None
    /\ widget.hostContext # None

---------------------------------------------------------------------------
(* Properties of the prompt *)

\* a string that is a decimal numeral and nothing else: an optional minus,
\* digits, and optionally a point and digits
Unsigned(string) ==
    IF string # <<>> /\ Head(string) = "-" THEN Tail(string) ELSE string
FractionOf(string) ==
    SubSeq(Unsigned(string), Len(LeadingDigits(Unsigned(string))) + 1,
           Len(Unsigned(string)))
IsNumeral(string) ==
    /\ LeadingDigits(Unsigned(string)) # <<>>
    /\ \/ FractionOf(string) = <<>>
       \/ /\ Head(FractionOf(string)) = "."
          /\ Len(FractionOf(string)) > 1
          /\ \A i \in 2..Len(FractionOf(string)) :
                FractionOf(string)[i] \in Digits

\* the parts of a numeral
IsNegative(string) == Head(string) = "-"
IntegerPart(string) == DecimalValue(LeadingDigits(Unsigned(string)))
FractionIsZero(string) ==
    \A i \in 2..Len(FractionOf(string)) : FractionOf(string)[i] = "0"

\* where the number a numeral denotes lies
IsZero(string) == IntegerPart(string) = 0 /\ FractionIsZero(string)
IsBelowOne(string) ==
    ~IsZero(string) /\ (IsNegative(string) \/ IntegerPart(string) = 0)
IsAboveTen(string) ==
    /\ ~IsNegative(string)
    /\ \/ IntegerPart(string) > 10
       \/ IntegerPart(string) = 10 /\ ~FractionIsZero(string)

\* a string without any digit
HasNoDigit(string) == \A i \in 1..Len(string) : string[i] \notin Digits

\* the prompt was asked for with complexity given as string
AskedWith(string) ==
    called.op = "visualize-feeling" /\ called.value = Some(string)

Truncated(string) ==
    IF IsNegative(string) THEN 0 - IntegerPart(string)
    ELSE IntegerPart(string)

---------------------------------------------------------------------------
(* Properties of tools/call with an unknown tool *)

\* well-formed tools/call messages whose name is no tool, or is missing
UnknownToolBodies(r) ==
    {Body("object", "2.0", id, "tools/call", name, "absent") :
        id \in IdsOf(r), name \in {"other", "absent"}}

\* C34: a tools/call whose name is neither generate_mood_scene nor
\* learn_mood_primitives, or is missing, is answered in the step that reads
\* it with error -32602 under the message's id and without a result, and
\* neither enhanceEmotionToThreeJS nor loadHtml was or is called for it.
C34_UnknownToolIsInvalidParams ==
    [][\A r \in Requests :
        pc[r] = "request.json" =>
            \A body \in UnknownToolBodies(r) :
                BodyRead(r, body) =>
                    /\ responded' = Sent(r, JsonRpcError(body.id, InvalidParams,
                                                         "Unknown tool"))
                    /\ responded'.result = None
                    /\ pc'[r] = "idle"
                    /\ calls[r].enhanceEmotionToThreeJS = 0
                    /\ calls[r].loadHtml = 0]_vars

\* a call of an unknown tool in a message with an id has just been refused
C34_Witness ==
    /\ responded.error = Some(InvalidParams)
    /\ responded.message = "Unknown tool"
    /\ responded.id = Some(responded.req)

---------------------------------------------------------------------------
(* Isolation of a request from the cache and from other requests *)

\* what the two messages of IsolationBodies are answered with: {} for a
\* ping, the scene of the model's text with the default height, or the tool
\* error when the model fails
PingAnswer(r) == JsonRpcResult(Some(r), "empty", FALSE)
SceneAnswer(r) ==
    JsonRpcResultWith(Some(r), "scene", FALSE,
                      Scene(CleanupCode(PlainText), "calm", 600))
SceneFailure(r) == JsonRpcResult(Some(r), "Error", TRUE)

\* the step is taken by request r
StepOf(r) == pc'[r] # pc[r]

\* C35: the response of an authenticated request is determined by its message
\* and by what its collaborators returned, whatever the cache holds (the
\* identity cached, missing or evicted, other identities cached) and whatever
\* other requests do: a ping is answered with {} under its id, a call of
\* generate_mood_scene with the scene of the model's text or, when the model
\* fails, with the tool error; and a step of one request changes nothing that
\* another request answers from.
C35_ResponseIgnoresCache ==
    [][\A r \in Requests :
        /\ (pc[r] = "request.json" /\ StepOf(r)) =>
              \/ /\ pc'[r] = "idle"
                 /\ responded' = Sent(r, PingAnswer(r))
              \/ /\ pc'[r] = "enhanceEmotionToThreeJS"
                 /\ msg'[r] = Some(r)
                 /\ locals'[r] = [emotion |-> "calm", complexity |-> 5,
                                  height |-> 600]
                 /\ responded' = responded
        /\ (pc[r] = "enhanceEmotionToThreeJS" /\ StepOf(r)) =>
              /\ pc'[r] = "idle"
              /\ responded' \in {Sent(r, SceneAnswer(r)),
                                 Sent(r, SceneFailure(r))}
        /\ ~StepOf(r) =>
              /\ msg'[r] = msg[r]
              /\ locals'[r] = locals[r]
              /\ responded'.req # r \/ responded' = responded
      ]_vars

\* a ping is answered although the second construction, for identity 2,
\* evicted identity 1 after the pinging request had looked its instance up
C35_Witness ==
    /\ maxSize = 1
    /\ created = 2
    /\ called = [op |-> "getOrCreateServer", key |-> 2, value |-> None]
    /\ Len(logged) = 1
    /\ logged[1].evicted_user_id = 1
    /\ pc[2] = "request.json"
    /\ responded = Sent(1, PingAnswer(1))

\* request r is suspended on a collaborator and the cache no longer holds its
\* identity: requests of other identities have evicted the entry
EvictedWhileSuspended(r) ==
    /\ pc[r] \in {"request.json", "enhanceEmotionToThreeJS"}
    /\ ~MapHas(cache, user[r])

\* the instances that exist: the cached ones and those suspended requests hold
LiveInstances ==
    {cache[i].value : i \in 1..Len(cache)}
        \cup {server[r] : r \in {q \in Requests : server[q] # 0}}

\* C36: a request whose identity was evicted while it was suspended on
\* request.json() or on enhanceEmotionToThreeJS continues as if nothing had
\* happened (a ping gets {}, a generate_mood_scene call goes on to the model
\* and then gets the scene or, when the model fails, the tool error, and
\* nothing else), and a request whose lookup
\* finds its identity missing builds an instance that no entry and no
\* suspended request holds, and leaves it cached for the identity.
C36_EvictedRequestCompletes ==
    [][\A r \in Requests :
        /\ (EvictedWhileSuspended(r) /\ StepOf(r)) =>
              IF pc[r] = "request.json"
              THEN \/ /\ pc'[r] = "idle"
                      /\ responded' = Sent(r, PingAnswer(r))
                   \/ /\ pc'[r] = "enhanceEmotionToThreeJS"
                      /\ responded' = responded
              ELSE /\ pc'[r] = "idle"
                   /\ responded' \in {Sent(r, SceneAnswer(r)),
                                      Sent(r, SceneFailure(r))}
        /\ \A k \in TwoUsers :
              (LooksUp(r, k) /\ ~MapHas(cache, k)) =>
                 /\ created' = created + 1
                 /\ server'[r] \notin LiveInstances
                 /\ CachedFor(cache', k) = server'[r]
      ]_vars

\* request 1 of identity 1 still waits for the model with the first instance
\* ever built, identity 2 was built second and evicted identity 1, and the
\* next request of identity 1 has built the third instance and cached it
C36_Witness ==
    /\ maxSize = 1
    /\ created = 3
    /\ pc[1] = "enhanceEmotionToThreeJS"
    /\ user[1] = 1
    /\ server[1] = NumInstances + 1
    /\ pc[2] = "request.json"
    /\ user[2] = 1
    /\ server[2] = NumInstances + 3
    /\ CachedFor(cache, 1) = NumInstances + 3
    /\ responded = Sent(2, PingAnswer(2))

---------------------------------------------------------------------------
(* The size of the cache over time *)

\* C37: with a capacity of at least 1 no operation leaves the cache with
\* fewer entries than it found: a key leaves the cache only in a set of an
\* absent key, which stores that key in the same step; so a cache that
\* holds capacity entries holds capacity entries after every operation.
C37_SizeNeverDecreases ==
    [][/\ Len(cache') >= Len(cache)
       /\ Removed # {} =>
             /\ called'.op = "set"
             /\ ~MapHas(cache, called'.key)
             /\ MapHas(cache', called'.key)
             /\ Cardinality(Removed) = 1
       /\ Len(cache) = maxSize => Len(cache') = maxSize]_vars

\* a cache of capacity 2 is full again after a set that evicted an entry
C37_Witness ==
    /\ maxSize = 2
    /\ called.op = "set"
    /\ Len(logged) = 1
    /\ ~MapHas(cache, logged[1].evicted_user_id)
    /\ Len(cache) = maxSize

===========================================================================
